---- MODULE Spec2Model ----
(***************************************************************************)
(* FELIT v2.2 global chat: the express server felit_server.js (SQLite      *)
(* store felit.db, express-session login, CLI provisioning) and the        *)
(* browser client script that polls /messages and posts to /send.          *)
(*                                                                         *)
(* Strings are sequences of one-character strings, so that trimming and    *)
(* hashing are computed.  A JavaScript value is a record [t, v]: t is      *)
(* "undefined" for a field missing from a body or from argv, "string"      *)
(* otherwise.                                                              *)
(***************************************************************************)
EXTENDS Integers, Sequences, FiniteSets, Bags, TLC

VARIABLES
  dbFile,    \* felit.db: "absent", "empty" (file without tables), "ready"
  users,     \* table users, in rowid order
  messages,  \* table messages, in rowid order
  session,   \* client (cookie jar) -> req.session.user, or Anonymous
  cookie,    \* client -> "none", "live", or "stale" (its session was destroyed)
  pending,   \* bag of the requests whose handler is waiting on the store
  last,      \* the HTTP response on its way to the client, or NoResponse
  errlog     \* what the handler of that response wrote with console.error
             \* ("" when nothing)

vars == <<dbFile, users, messages, session, cookie, pending, last, errlog>>

-----------------------------------------------------------------------------
(* Bounds *)

MaxMessages == 2
MaxPending  == 2

\* the clients (cookie jars) that talk to the server
Sessions == {1, 2}

-----------------------------------------------------------------------------
(* JavaScript values *)

Undefined == [t |-> "undefined", v |-> <<>>]
Str(s)    == [t |-> "string", v |-> s]

\* !x is false exactly for a non-empty string (undefined and '' are falsy)
Truthy(x) == x.t = "string" /\ x.v # <<>>

alice == <<"a", "l", "i", "c", "e">>
root  == <<"r", "o", "o", "t">>
pw1   == <<"p", "1">>
pw2   == <<"p", "2">>

\* bodies of POST /login: <<username, password>>
LoginBodies ==
  { <<Undefined, Undefined>>, <<Undefined, Str(pw1)>>,
    <<Str(alice), Undefined>>, <<Str(alice), Str(pw1)>>,
    <<Str(alice), Str(pw2)>>,
    <<Str(root), Str(pw1)>>, <<Str(root), Str(pw2)>> }

\* bodies of POST /send: <<text, sender_id>>, sender_id 0 when the body
\* has no such field
hi == <<"h", "i">>
SendBodies ==
  { <<Undefined, 0>>, <<Str(<<>>), 0>>, <<Str(<<" ">>), 0>>,
    <<Str(hi), 0>>, <<Str(hi), 1>>, <<Str(hi), 2>> }

\* values of the client's input box
BoxInputs == {<<" ">>, <<" ">> \o hi \o <<" ">>}

\* command lines of adduser: <username> <password> [admin]
AddUserArgs ==
  { <<Undefined, Undefined, FALSE>>,
    <<Str(alice), Undefined, FALSE>>,
    <<Str(alice), Str(pw1), FALSE>>,
    <<Str(root), Str(pw2), TRUE>> }

\* String.prototype.trim
RECURSIVE TrimLeft(_)
TrimLeft(s) == IF s # <<>> /\ Head(s) = " " THEN TrimLeft(Tail(s)) ELSE s

RECURSIVE TrimRight(_)
TrimRight(s) ==
  IF s # <<>> /\ s[Len(s)] = " " THEN TrimRight(SubSeq(s, 1, Len(s) - 1)) ELSE s

Trim(s) == TrimRight(TrimLeft(s))

-----------------------------------------------------------------------------
(* bcrypt *)

BcryptCost == 10

\* bcrypt.hash(password, 10): the salt is left out, compare does not depend
\* on which salt was drawn
BcryptHash(password) == <<"$", "2", "b", "$", BcryptCost, "$">> \o password

\* bcrypt.compare(data, hash): rejects when data is undefined, otherwise
\* resolves to whether hash is a hash of data
BcryptCompare(data, hash) ==
  IF data.t = "undefined" THEN "throw"
  ELSE IF BcryptHash(data.v) = hash THEN "true" ELSE "false"

-----------------------------------------------------------------------------
(* The store *)

\* new sqlite3.Database(DB_FILE) creates the file when it does not exist
OpenDb(f) == IF f = "absent" THEN "empty" ELSE f

\* INTEGER PRIMARY KEY AUTOINCREMENT: rows are never deleted, so the next
\* id is one more than the number of rows
NextId(table) == Len(table) + 1

\* SELECT * FROM users WHERE username=?   (db.get: first row or undefined)
UsersByName(tbl, username) ==
  {i \in 1..Len(tbl) : username.t = "string" /\ tbl[i].username = username.v}

\* a username column without UNIQUE: the insert never fails
InsertUserOkAlways(tbl, username) == TRUE

\* INSERT INTO users(username, password_hash, is_admin) VALUES(?,?,?)
\* UNIQUE(username) makes the insert fail when the name is taken
InsertUserOk(tbl, username) == UsersByName(tbl, Str(username)) = {}

InsertUser(tbl, username, hash, isAdmin) ==
  Append(tbl, [id |-> NextId(tbl), username |-> username,
               password_hash |-> hash, is_admin |-> IF isAdmin THEN 1 ELSE 0])

\* CURRENT_TIMESTAMP when a statement runs, in seconds counted from the
\* first INSERT: the clock does not run backwards, so it reads what it read
\* at the previous INSERT or, when the second has changed since
\* (elapsed = 1), something later
CurrentTimestamp(tbl, elapsed) ==
  IF tbl = <<>> THEN 0 ELSE tbl[Len(tbl)].ts + elapsed

\* INSERT OR REPLACE keyed by the sender: a sender's earlier row is
\* overwritten
InsertMessageUpsert(tbl, senderId, text, elapsed) ==
  IF \E i \in 1..Len(tbl) : tbl[i].sender_id = senderId
    THEN [i \in 1..Len(tbl) |->
            IF tbl[i].sender_id = senderId
              THEN [tbl[i] EXCEPT !.text = text,
                                  !.ts = CurrentTimestamp(tbl, elapsed)]
              ELSE tbl[i]]
    ELSE Append(tbl, [id |-> NextId(tbl), sender_id |-> senderId,
                      text |-> text, ts |-> CurrentTimestamp(tbl, elapsed)])

\* INSERT INTO messages(sender_id, text) VALUES(?, ?)   ts defaults to
\* CURRENT_TIMESTAMP, read when the statement runs
InsertMessage(tbl, senderId, text, elapsed) ==
  Append(tbl, [id |-> NextId(tbl), sender_id |-> senderId,
               text |-> text, ts |-> CurrentTimestamp(tbl, elapsed)])

-----------------------------------------------------------------------------
(* Outputs *)

Anonymous == [id |-> 0, username |-> <<>>, is_admin |-> FALSE]

Output(op, sid, status, send, location, us, ms) ==
  [op |-> op, sid |-> sid, status |-> status, send |-> send,
   location |-> location, users |-> us, messages |-> ms]

NoResponse == Output("none", 0, 0, "", "", <<>>, <<>>)

\* no response is on its way: the responses are observed one at a time
Idle == last = NoResponse

Init ==
  /\ dbFile = "absent"
  /\ users = <<>>
  /\ messages = <<>>
  /\ session = [s \in Sessions |-> Anonymous]
  /\ cookie = [s \in Sessions |-> "none"]
  /\ pending = EmptyBag
  /\ last = NoResponse
  /\ errlog = ""

-----------------------------------------------------------------------------
(* CLI commands *)

\* node felit_server.js init-db
InitDb ==
  /\ Idle
  /\ dbFile' = IF dbFile # "absent" THEN dbFile ELSE "ready"
  /\ UNCHANGED <<users, messages, session, cookie, pending, last, errlog>>

\* node felit_server.js adduser <username> <password> [admin]
AddUserCLI(username, password, isAdmin, dbOk) ==
  /\ Idle
  /\ IF ~Truthy(username) \/ ~Truthy(password)
       THEN UNCHANGED vars
       ELSE /\ dbFile' = OpenDb(dbFile)
            /\ users' = IF dbFile = "ready" /\ dbOk /\ InsertUserOk(users, username.v)
                          THEN InsertUser(users, username.v,
                                          BcryptHash(password.v), isAdmin)
                          ELSE users
            /\ UNCHANGED <<messages, session, cookie, pending, last, errlog>>

-----------------------------------------------------------------------------
(* Queries *)

\* the users row with the given id (users.id is the primary key)
UserById(tbl, id) == tbl[CHOOSE i \in 1..Len(tbl) : tbl[i].id = id]

HasUser(tbl, id) == \E i \in 1..Len(tbl) : tbl[i].id = id

\* the join written ON m.id = u.id
RECURSIVE JoinRowsOnMessageId(_, _)
JoinRowsOnMessageId(us, ms) ==
  IF ms = <<>> THEN <<>>
  ELSE LET m == Head(ms) IN
       (IF HasUser(us, m.id)
          THEN << [id |-> m.id, text |-> m.text, ts |-> m.ts,
                   username |-> UserById(us, m.id).username,
                   is_admin |-> UserById(us, m.id).is_admin] >>
          ELSE <<>>)
       \o JoinRowsOnMessageId(us, Tail(ms))

\* FROM messages m JOIN users u ON m.sender_id = u.id, in the order of the
\* scan of m; a message without a users row yields no row
RECURSIVE JoinRows(_, _)
JoinRows(us, ms) ==
  IF ms = <<>> THEN <<>>
  ELSE LET m == Head(ms) IN
       (IF HasUser(us, m.sender_id)
          THEN << [id |-> m.id, text |-> m.text, ts |-> m.ts,
                   username |-> UserById(us, m.sender_id).username,
                   is_admin |-> UserById(us, m.sender_id).is_admin] >>
          ELSE <<>>)
       \o JoinRows(us, Tail(ms))

\* a sort that puts a row before the rows with an equal key
RECURSIVE InsertAscUnstable(_, _)
InsertAscUnstable(sorted, r) ==
  IF sorted = <<>> THEN <<r>>
  ELSE IF Head(sorted).ts < r.ts
         THEN <<Head(sorted)>> \o InsertAscUnstable(Tail(sorted), r)
         ELSE <<r>> \o sorted

\* ORDER BY m.ts ASC: SQLite's sorter keeps rows with equal keys in the
\* order they were produced
RECURSIVE InsertAsc(_, _)
InsertAsc(sorted, r) ==
  IF sorted = <<>> THEN <<r>>
  ELSE IF Head(sorted).ts <= r.ts
         THEN <<Head(sorted)>> \o InsertAsc(Tail(sorted), r)
         ELSE <<r>> \o sorted

RECURSIVE OrderByTsAsc(_)
OrderByTsAsc(rows) ==
  IF rows = <<>> THEN <<>>
  ELSE InsertAsc(OrderByTsAsc(SubSeq(rows, 1, Len(rows) - 1)), rows[Len(rows)])

\* ORDER BY m.ts DESC
RECURSIVE InsertDesc(_, _)
InsertDesc(sorted, r) ==
  IF sorted = <<>> THEN <<r>>
  ELSE IF Head(sorted).ts >= r.ts
         THEN <<Head(sorted)>> \o InsertDesc(Tail(sorted), r)
         ELSE <<r>> \o sorted

RECURSIVE OrderByTsDesc(_)
OrderByTsDesc(rows) ==
  IF rows = <<>> THEN <<>>
  ELSE InsertDesc(OrderByTsDesc(SubSeq(rows, 1, Len(rows) - 1)), rows[Len(rows)])

\* GET /messages: SELECT m.id, m.text, m.ts, u.username, u.is_admin ...
MessagesQuery(us, ms) == OrderByTsAsc(JoinRows(us, ms))

\* GET /admin: SELECT m.id, m.text, m.ts, u.username as sender, u.is_admin ...
AdminMessagesQuery(us, ms) ==
  LET rows == OrderByTsDesc(JoinRows(us, ms)) IN
  [i \in 1..Len(rows) |->
     [id |-> rows[i].id, text |-> rows[i].text, ts |-> rows[i].ts,
      sender |-> rows[i].username, is_admin |-> rows[i].is_admin]]

\* strings compare by code unit, as SQLite's BINARY collation does
CharCode(c) == CASE c = "A" -> 65
                 [] c = "a" -> 97 [] c = "c" -> 99 [] c = "e" -> 101
                 [] c = "i" -> 105 [] c = "l" -> 108 [] c = "o" -> 111
                 [] c = "r" -> 114 [] c = "t" -> 116 [] OTHER -> 0

RECURSIVE StrLess(_, _)
StrLess(a, b) ==
  IF b = <<>> THEN FALSE
  ELSE IF a = <<>> THEN TRUE
  ELSE IF CharCode(Head(a)) # CharCode(Head(b))
         THEN CharCode(Head(a)) < CharCode(Head(b))
         ELSE StrLess(Tail(a), Tail(b))

RECURSIVE InsertByName(_, _)
InsertByName(sorted, r) ==
  IF sorted = <<>> THEN <<r>>
  ELSE IF StrLess(r.username, Head(sorted).username)
         THEN <<r>> \o sorted
         ELSE <<Head(sorted)>> \o InsertByName(Tail(sorted), r)

\* GET /admin: SELECT id, username, is_admin FROM users ORDER BY username ASC
RECURSIVE AdminUsersQuery(_)
AdminUsersQuery(us) ==
  IF us = <<>> THEN <<>>
  ELSE LET u == us[Len(us)] IN
       InsertByName(AdminUsersQuery(SubSeq(us, 1, Len(us) - 1)),
                    [id |-> u.id, username |-> u.username,
                     is_admin |-> u.is_admin])

-----------------------------------------------------------------------------
(* HTTP responses *)

Response(op, sid, status, send) ==
  Output(op, sid, status, send, "", <<>>, <<>>)

\* res.redirect(location)
Redirect(op, sid, location) ==
  Output(op, sid, 302, "", location, <<>>, <<>>)

\* res.json(...) of the two list endpoints
Json(op, sid, status, us, ms) ==
  Output(op, sid, status, "", "", us, ms)

\* a gate that lets every request through
RequireLoginOpen(s) == TRUE

\* requireLogin lets the request through when req.session.user is set
RequireLogin(s) == session[s] # Anonymous

\* a request waiting on the store: a send with its INSERT parameters, or
\* an admin view with the rows of its users query; user is the id in the
\* req.session.user the request was admitted with
SendRequest(s, user, text) ==
  [op |-> "send", sid |-> s, user |-> user, text |-> text, users |-> <<>>]

AdminRequest(s, user, us) ==
  [op |-> "admin", sid |-> s, user |-> user, text |-> Undefined, users |-> us]

\* the parameters are kept in one place shared by the handlers: the
\* requests already waiting take those of the newcomer
AwaitShared(r) ==
  LET n == BagCardinality(pending) IN [x \in {r} |-> n + 1]

Await(r) == pending (+) SetToBag({r})

Resume(r) == pending (-) SetToBag({r})

PendingSends ==
  LET rs == {r \in BagToSet(pending) : r.op = "send"} IN
  BagCardinality([r \in rs |-> pending[r]])

-----------------------------------------------------------------------------
(* POST /login *)

\* the admin flag of the row is not copied
SessionUserNoFlag(user) ==
  [id |-> user.id, username |-> user.username, is_admin |-> FALSE]

\* the row itself is tested in place of its flag (!!user)
SessionUserAllAdmin(user) ==
  [id |-> user.id, username |-> user.username, is_admin |-> TRUE]

\* req.session.user = { id, username, is_admin: !!user.is_admin }
SessionUser(user) ==
  [id |-> user.id, username |-> user.username, is_admin |-> user.is_admin # 0]

\* if(!user) return res.status(401).send('Invalid username/password')
UnknownUserResponse(s) == Response("login", s, 401, "Invalid username/password")

\* a message of its own for the failed password check
BadPasswordResponseReveal(s) == Response("login", s, 401, "Invalid password")

\* if(!ok) return res.status(401).send('Invalid username/password')
BadPasswordResponse(s) == Response("login", s, 401, "Invalid username/password")

\* catch(e): res.status(500).send('Server error')
LoginErrorResponse(s) == Response("login", s, 500, "Server error")

\* req.session.user is dropped whenever the login is refused
LoginResultFailureClears(s, file, tbl, cur, username, password, dbOk) ==
  LET found == UsersByName(tbl, username) IN
  IF file # "ready" \/ ~dbOk
    THEN [out |-> LoginErrorResponse(s), user |-> cur]
  ELSE IF found = {}
    THEN [out |-> UnknownUserResponse(s), user |-> Anonymous]
  ELSE LET user == tbl[CHOOSE i \in found : \A j \in found : i <= j]
           ok   == BcryptCompare(password, user.password_hash)
       IN
       IF ok = "throw" THEN [out |-> LoginErrorResponse(s), user |-> cur]
       ELSE IF ok = "false"
         THEN [out |-> BadPasswordResponse(s), user |-> Anonymous]
       ELSE [out |-> Redirect("login", s, "/"), user |-> SessionUser(user)]

\* the catch branch also drops req.session.user
LoginResultErrorClears(s, file, tbl, cur, username, password, dbOk) ==
  LET found == UsersByName(tbl, username) IN
  IF file # "ready" \/ ~dbOk
    THEN [out |-> LoginErrorResponse(s), user |-> Anonymous]
  ELSE IF found = {}
    THEN [out |-> UnknownUserResponse(s), user |-> cur]
  ELSE LET user == tbl[CHOOSE i \in found : \A j \in found : i <= j]
           ok   == BcryptCompare(password, user.password_hash)
       IN
       IF ok = "throw" THEN [out |-> LoginErrorResponse(s), user |-> Anonymous]
       ELSE IF ok = "false" THEN [out |-> BadPasswordResponse(s), user |-> cur]
       ELSE [out |-> Redirect("login", s, "/"), user |-> SessionUser(user)]

\* the outcome of the handler: the response and the value of
\* req.session.user after it (cur when the handler does not assign it)
LoginResult(s, file, tbl, cur, username, password, dbOk) ==
  LET found == UsersByName(tbl, username) IN
  IF file # "ready" \/ ~dbOk
    THEN [out |-> LoginErrorResponse(s), user |-> cur]
  ELSE IF found = {}
    THEN [out |-> UnknownUserResponse(s), user |-> cur]
  ELSE LET user == tbl[CHOOSE i \in found : \A j \in found : i <= j]
           ok   == BcryptCompare(password, user.password_hash)
       IN
       IF ok = "throw" THEN [out |-> LoginErrorResponse(s), user |-> cur]
       ELSE IF ok = "false" THEN [out |-> BadPasswordResponse(s), user |-> cur]
       ELSE [out |-> Redirect("login", s, "/"), user |-> SessionUser(user)]

\* express-session saves a session the handler has assigned to and sends
\* its cookie; a session left untouched is neither saved nor announced
\* (resave: false, saveUninitialized: false)
SaveSession(s, user) ==
  IF user # session[s] THEN [cookie EXCEPT ![s] = "live"] ELSE cookie

Login(s, username, password, dbOk) ==
  LET r == LoginResult(s, dbFile, users, session[s], username, password, dbOk)
  IN
  /\ Idle
  /\ dbFile' = OpenDb(dbFile)
  /\ session' = [session EXCEPT ![s] = r.user]
  /\ cookie' = SaveSession(s, r.user)
  /\ last' = r.out
  /\ UNCHANGED <<users, messages, pending, errlog>>

\* the session is left in the store
DestroySessionKeep(s) == session

\* every session of the user is destroyed
DestroySessionOfUser(s) ==
  [t \in Sessions |->
     IF session[t].id = session[s].id THEN Anonymous ELSE session[t]]

\* req.session.destroy: the store forgets the session; the client keeps
\* the cookie it was given, which now names no session
DestroySession(s) == [session EXCEPT ![s] = Anonymous]

\* POST /logout
Logout(s) ==
  /\ Idle
  /\ session' = DestroySession(s)
  /\ cookie' = [cookie EXCEPT ![s] = IF cookie[s] = "none" THEN "none" ELSE "stale"]
  /\ last' = Redirect("logout", s, "/login.html")
  /\ UNCHANGED <<dbFile, users, messages, pending, errlog>>

\* GET /
GetRoot(s) ==
  /\ Idle
  /\ last' = IF ~RequireLogin(s) THEN Redirect("root", s, "/login.html")
             ELSE Response("root", s, 200, "chat.html")
  /\ UNCHANGED <<dbFile, users, messages, session, cookie, pending, errlog>>

\* GET /.well-known/health
Health(s) ==
  /\ Idle
  /\ last' = Response("health", s, 200, "{status:ok}")
  /\ UNCHANGED <<dbFile, users, messages, session, cookie, pending, errlog>>

-----------------------------------------------------------------------------
(* POST /send *)

\* if(!text || !req.session.user) return 400
SendRejects(s, text) == ~Truthy(text) \/ session[s] = Anonymous

\* the sender is whatever the body says, 0 when it says nothing
SendSenderTrustsBody(s, bodySender) == bodySender

\* the sender is read from the body when the body names one
SendSenderFromBody(s, bodySender) ==
  IF bodySender # 0 THEN bodySender ELSE session[s].id

\* the sender bound to the INSERT: req.session.user.id; a sender_id field
\* of the body is never read
SendSender(s, bodySender) == session[s].id

\* the handler up to its await: the gate, the check of the body, and the
\* INSERT handed to the store with its parameters bound
SendBegin(s, text, bodySender) ==
  /\ Idle
  /\ IF ~RequireLogin(s)
       THEN /\ last' = Redirect("send", s, "/login.html")
            /\ UNCHANGED <<dbFile, users, messages, session, cookie, pending, errlog>>
     ELSE IF SendRejects(s, text)
       THEN /\ last' = Response("send", s, 400, "Bad Request")
            /\ UNCHANGED <<dbFile, users, messages, session, cookie, pending, errlog>>
     ELSE /\ BagCardinality(pending) < MaxPending
          /\ Len(messages) + PendingSends < MaxMessages
          /\ pending' = Await(SendRequest(s, SendSender(s, bodySender), text))
          /\ dbFile' = OpenDb(dbFile)
          /\ UNCHANGED <<users, messages, session, cookie, last, errlog>>

\* the store runs the INSERT and the handler answers
SendCommit(s, elapsed, dbOk) ==
  /\ Idle
  /\ \E r \in BagToSet(pending) :
    /\ r.op = "send" /\ r.sid = s
    /\ pending' = Resume(r)
    /\ IF dbFile = "ready" /\ dbOk
         THEN /\ messages' = InsertMessage(messages, r.user, r.text.v, elapsed)
              /\ last' = Response("send", s, 200, "OK")
              /\ errlog' = ""
         ELSE /\ UNCHANGED messages
              /\ last' = Response("send", s, 500, "Database error")
              /\ errlog' = "DB insert error:"
  /\ UNCHANGED <<dbFile, users, session, cookie>>

\* the client: sendMessage() posts the trimmed input unless it is empty
ClientSendMessage(s, value) ==
  /\ Idle
  /\ LET text == Trim(value) IN
     IF text = <<>> THEN UNCHANGED vars
     ELSE SendBegin(s, Str(text), 0)

-----------------------------------------------------------------------------
(* GET /messages *)

GetMessages(s, dbOk) ==
  /\ Idle
  /\ IF ~RequireLogin(s)
       THEN /\ last' = Redirect("messages", s, "/login.html")
            /\ UNCHANGED <<dbFile, users, messages, session, cookie, pending, errlog>>
       ELSE /\ dbFile' = OpenDb(dbFile)
            /\ last' = IF dbFile = "ready" /\ dbOk
                         THEN Json("messages", s, 200, <<>>,
                                   MessagesQuery(users, messages))
                         ELSE Json("messages", s, 500, <<>>, <<>>)
            /\ errlog' = IF dbFile = "ready" /\ dbOk THEN "" ELSE "DB fetch error:"
            /\ UNCHANGED <<users, messages, session, cookie, pending>>

-----------------------------------------------------------------------------
(* GET /admin *)

\* the admin check left out
AdminForbiddenNever(s) == FALSE

\* if(!req.session.user.is_admin) return 403
AdminForbidden(s) == ~session[s].is_admin

\* the handler up to its second await: the gates and the users query
AdminBegin(s, dbOk) ==
  /\ Idle
  /\ IF ~RequireLogin(s)
       THEN /\ last' = Redirect("admin", s, "/login.html")
            /\ UNCHANGED <<dbFile, users, messages, session, cookie, pending, errlog>>
     ELSE IF AdminForbidden(s)
       THEN /\ last' = Response("admin", s, 403, "Forbidden")
            /\ UNCHANGED <<dbFile, users, messages, session, cookie, pending, errlog>>
     ELSE IF dbFile # "ready" \/ ~dbOk
       THEN /\ last' = Response("admin", s, 500, "Server error")
            /\ dbFile' = OpenDb(dbFile)
            /\ UNCHANGED <<users, messages, session, cookie, pending, errlog>>
     ELSE /\ BagCardinality(pending) < MaxPending
          /\ pending' = Await(AdminRequest(s, session[s].id, AdminUsersQuery(users)))
          /\ UNCHANGED <<dbFile, users, messages, session, cookie, last, errlog>>

\* the messages query and the response
AdminFinish(s, dbOk) ==
  /\ Idle
  /\ \E r \in BagToSet(pending) :
    /\ r.op = "admin" /\ r.sid = s
    /\ pending' = Resume(r)
    /\ last' = IF dbOk
                 THEN Json("admin", s, 200, r.users,
                           AdminMessagesQuery(users, messages))
                 ELSE Response("admin", s, 500, "Server error")
  /\ UNCHANGED <<dbFile, users, messages, session, cookie, errlog>>

-----------------------------------------------------------------------------
\* the response reaches the client
Deliver ==
  /\ last # NoResponse
  /\ last' = NoResponse
  /\ errlog' = ""
  /\ UNCHANGED <<dbFile, users, messages, session, cookie, pending>>

-----------------------------------------------------------------------------
(* Specifications *)

\* the requests and commands, with the store failing or not
Step(dbOks) ==
  \/ InitDb
  \/ \E a \in AddUserArgs, ok \in dbOks : AddUserCLI(a[1], a[2], a[3], ok)
  \/ \E s \in Sessions, b \in LoginBodies, ok \in dbOks :
        Login(s, b[1], b[2], ok)
  \/ \E s \in Sessions : Logout(s)
  \/ \E s \in Sessions : GetRoot(s)
  \/ \E s \in Sessions : Health(s)
  \/ \E s \in Sessions, b \in SendBodies : SendBegin(s, b[1], b[2])
  \/ \E s \in Sessions, e \in {0, 1}, ok \in dbOks : SendCommit(s, e, ok)
  \/ \E s \in Sessions, v \in BoxInputs : ClientSendMessage(s, v)
  \/ \E s \in Sessions, ok \in dbOks : GetMessages(s, ok)
  \/ \E s \in Sessions, ok \in dbOks : AdminBegin(s, ok)
  \/ \E s \in Sessions, ok \in dbOks : AdminFinish(s, ok)
  \/ Deliver

\* the store answers every statement
Next == Step({TRUE})

Spec == Init /\ [][Next]_vars

\* any statement may fail (I/O error, locked or corrupt file)
NextFault == Step(BOOLEAN)

SpecFault == Init /\ [][NextFault]_vars

\* provisioning on its own, with more command lines: a second adduser for
\* a name that is taken, and a name that differs from another in case only
AliceUpper == <<"A", "l", "i", "c", "e">>

ProvisionArgs ==
  AddUserArgs \cup { <<Str(alice), Str(pw2), TRUE>>,
                     <<Str(AliceUpper), Str(pw1), FALSE>> }

ProvisionLogins ==
  { <<Str(alice), Str(pw1)>>, <<Str(alice), Str(pw2)>>,
    <<Str(AliceUpper), Str(pw1)>>, <<Str(root), Str(pw2)>> }

NextProvision ==
  \/ InitDb
  \/ \E a \in ProvisionArgs : AddUserCLI(a[1], a[2], a[3], TRUE)
  \/ \E s \in Sessions, b \in ProvisionLogins : Login(s, b[1], b[2], TRUE)
  \/ Deliver

SpecProvision == Init /\ [][NextProvision]_vars

-----------------------------------------------------------------------------
(* Properties of POST /login *)

\* the row of tbl that a body's credentials match: the username is the
\* row's and the password is one the stored hash was made from
Matches(row, username, password) ==
  /\ username.t = "string" /\ row.username = username.v
  /\ password.t = "string" /\ row.password_hash = BcryptHash(password.v)

\* C1: a POST /login with the username and the matching password of a
\* provisioned user is answered with a redirect to / and leaves the session
\* authenticated with that user's id and username and with the admin flag
\* stored for that user.
C1_ValidLoginSucceeds ==
  [][ \A s \in Sessions, b \in LoginBodies, i \in 1..Len(users) :
        (last'.op = "login" /\ last'.sid = s /\ Matches(users[i], b[1], b[2])
           /\ Login(s, b[1], b[2], TRUE))
        => /\ last' = Redirect("login", s, "/")
           /\ session'[s].id = users[i].id
           /\ session'[s].username = users[i].username
           /\ session'[s].is_admin = (users[i].is_admin = 1)
           /\ session'[s] # Anonymous ]_vars

\* a login has just succeeded for a user stored as admin, while a user
\* stored as non-admin is logged in on another client
C1_Witness ==
  /\ last.op = "login" /\ last.status = 302 /\ last.location = "/"
  /\ session[last.sid].is_admin
  /\ \E i \in 1..Len(users) :
       users[i].id = session[last.sid].id /\ users[i].is_admin = 1
  /\ \E s \in Sessions : session[s] # Anonymous /\ ~session[s].is_admin

\* credentials that are not those of a provisioned user
InvalidCredentials(tbl, username, password) ==
  \A i \in 1..Len(tbl) : ~Matches(tbl[i], username, password)

\* C2: with the tables in place, a POST /login whose credentials are invalid
\* (unknown username, password that does not match the stored hash, or an
\* absent username or password) is answered 401, and an anonymous session
\* stays anonymous.
C2_InvalidLoginUnauthorized ==
  [][ \A s \in Sessions, b \in LoginBodies :
        (last'.op = "login" /\ dbFile = "ready"
           /\ InvalidCredentials(users, b[1], b[2])
           /\ Login(s, b[1], b[2], TRUE))
        => /\ last'.status = 401
           /\ (session[s] = Anonymous => session'[s] = Anonymous) ]_vars

\* C3: in every state in which the server takes a request, a login with
\* an unknown username and a login with a known username and a password
\* that does not match get the same response, status and body.
C3_FailureDoesNotRevealCheck ==
  Idle =>
  \A b2 \in LoginBodies :
    ( /\ b2[2].t = "string"
      /\ UsersByName(users, b2[1]) # {}
      /\ InvalidCredentials(users, b2[1], b2[2]) )
    => \A b1 \in LoginBodies :
         UsersByName(users, b1[1]) = {}
         => \A s \in Sessions :
              LoginResult(s, dbFile, users, session[s], b1[1], b1[2], TRUE).out
              = LoginResult(s, dbFile, users, session[s], b2[1], b2[2], TRUE).out

\* a login has just been refused while one of the two names is provisioned
\* and the other is not
C3_Witness ==
  /\ last.op = "login" /\ last.status = 401
  /\ Len(users) = 1
  /\ dbFile = "ready"

-----------------------------------------------------------------------------
(* Properties of POST /send and GET /messages *)

\* C4: a POST /send with a non-empty text on a session authenticated as U
\* hands the store one INSERT whose sender is U's id, whatever sender_id the
\* body carries, and whose text is the submitted text; when the INSERT runs,
\* exactly one row with that sender and text is appended and the request is
\* answered 200; a later GET /messages on any authenticated session lists
\* every stored message, this one included.
C4_SendAddsOneRow ==
  [][ /\ \A s \in Sessions, b \in SendBodies :
           ( last' = last /\ pending' # pending
               /\ session[s] # Anonymous /\ Truthy(b[1])
               /\ SendBegin(s, b[1], b[2]) )
           => /\ pending' = pending (+) SetToBag({SendRequest(s, session[s].id, b[1])})
              /\ messages' = messages
      /\ \A s \in Sessions, e \in {0, 1} :
           (last'.op = "send" /\ last'.sid = s /\ SendCommit(s, e, TRUE))
           => \E r \in BagToSet(pending) :
                /\ r.op = "send" /\ r.sid = s
                /\ pending' = pending (-) SetToBag({r})
                /\ Len(messages') = Len(messages) + 1
                /\ SubSeq(messages', 1, Len(messages)) = messages
                /\ messages'[Len(messages')].sender_id = r.user
                /\ messages'[Len(messages')].text = r.text.v
                /\ last' = Response("send", s, 200, "OK")
      /\ \A s \in Sessions :
           ( last'.op = "messages" /\ last'.sid = s /\ session[s] # Anonymous
               /\ GetMessages(s, TRUE) )
           => /\ last'.status = 200
              /\ \A i \in 1..Len(messages) : \E j \in 1..Len(last'.messages) :
                   /\ last'.messages[j].id = messages[i].id
                   /\ last'.messages[j].text = messages[i].text
                   /\ last'.messages[j].username
                        = UserById(users, messages[i].sender_id).username ]_vars

\* a session has just fetched two messages, one of them sent by a user other
\* than its own
C4_Witness ==
  /\ last.op = "messages" /\ last.status = 200
  /\ Len(last.messages) = 2
  /\ \E j \in 1..2 : last.messages[j].username # session[last.sid].username
  /\ \E j \in 1..2 : last.messages[j].username = session[last.sid].username

Blank(text) == text.t = "undefined" \/ Trim(text.v) = <<>>

\* C6: a POST /send on an authenticated session whose text is empty, absent
\* or only whitespace is answered 400 and nothing is handed to the store.
C6_BlankSendRejected ==
  [][ \A s \in Sessions, b \in SendBodies :
        (session[s] # Anonymous /\ Blank(b[1]) /\ SendBegin(s, b[1], b[2]))
        => /\ last' = Response("send", s, 400, "Bad Request")
           /\ messages' = messages
           /\ pending' = pending ]_vars

-----------------------------------------------------------------------------
(* Properties of GET /admin *)

\* the columns the admin view selects from a users row
AdminColumns(row) ==
  [id |-> row.id, username |-> row.username, is_admin |-> row.is_admin]

\* C7: GET /admin on an authenticated session whose admin flag is false is
\* answered 403 'Forbidden' with no rows, and nothing is asked of the store;
\* on a session whose admin flag is true the users query returns every row
\* of the users table, and the response carries those rows and every stored
\* message, the messages by descending timestamp.
C7_AdminView ==
  [][ /\ \A s \in Sessions :
           ( (last' # last \/ pending' # pending)
               /\ session[s] # Anonymous /\ ~session[s].is_admin
               /\ AdminBegin(s, TRUE) )
           => /\ last' = Response("admin", s, 403, "Forbidden")
              /\ pending' = pending
      /\ \A s \in Sessions :
           (pending' # pending /\ session[s].is_admin /\ AdminBegin(s, TRUE))
           => \E r \in BagToSet(pending') :
                /\ r.op = "admin" /\ r.sid = s
                /\ pending' = pending (+) SetToBag({r})
                /\ Len(r.users) = Len(users)
                /\ \A i \in 1..Len(users) : \E j \in 1..Len(r.users) :
                     r.users[j] = AdminColumns(users[i])
      /\ \A s \in Sessions :
           (last'.op = "admin" /\ AdminFinish(s, TRUE))
           => \E r \in BagToSet(pending) :
                /\ r.op = "admin" /\ r.sid = s
                /\ last'.status = 200
                /\ last'.users = r.users
                /\ Len(last'.messages) = Len(messages)
                /\ \A i \in 1..Len(messages) : \E j \in 1..Len(last'.messages) :
                     /\ last'.messages[j].id = messages[i].id
                     /\ last'.messages[j].text = messages[i].text
                     /\ last'.messages[j].sender
                          = UserById(users, messages[i].sender_id).username
                /\ \A i, j \in 1..Len(last'.messages) :
                     i < j => last'.messages[i].ts >= last'.messages[j].ts ]_vars

\* an admin view has just been answered with two users and two messages of
\* different timestamps
C7_Witness ==
  /\ last.op = "admin" /\ last.status = 200
  /\ Len(last.users) = 2
  /\ Len(last.messages) = 2
  /\ last.messages[1].ts > last.messages[2].ts

\* the session of client s carries the id, username and admin flag of a
\* row of the users table
SessionMatchesStore(s) ==
  session[s] # Anonymous
  => \E i \in 1..Len(users) :
       /\ users[i].id = session[s].id
       /\ users[i].username = session[s].username
       /\ (users[i].is_admin = 1) = session[s].is_admin

StoredAdmin(id) == \E i \in 1..Len(users) : users[i].id = id /\ users[i].is_admin = 1

\* C8: every authenticated session carries the id, username and admin flag
\* of a stored user; a GET /admin is admitted to the store only for a user
\* stored as admin, and when its lists are returned the user it was
\* admitted for is stored as admin.
C8_OnlyStoredAdminsReadAdminView ==
  /\ \A s \in Sessions : SessionMatchesStore(s)
  /\ \A r \in BagToSet(pending) :
       r.op = "admin" => StoredAdmin(r.user) /\ r.user # 0
  /\ (last.op = "admin" /\ last.status = 200)
     => \E i \in 1..Len(users) : users[i].is_admin = 1

\* an admin view is waiting on the store for the admin while a non-admin is
\* logged in on the other client
C8_Witness ==
  /\ \E r \in BagToSet(pending) :
       r.op = "admin" /\ session[r.sid].is_admin /\ session[r.sid].id = r.user
  /\ \E s \in Sessions : session[s] # Anonymous /\ ~session[s].is_admin

-----------------------------------------------------------------------------
(* Properties of the session gate *)

StoreUnchanged ==
  /\ dbFile' = dbFile /\ users' = users /\ messages' = messages
  /\ pending' = pending

\* C9: POST /logout leaves the client without a session (its cookie names
\* none); from then on, until a POST /login on that client succeeds, its
\* GET /messages, POST /send and GET /admin are answered with the redirect
\* to /login.html, carry no rows and leave the store as it was.
C9_LoggedOutIsRejected ==
  [][ \A s \in Sessions :
        /\ (last'.op = "logout" /\ last'.sid = s /\ Logout(s))
           => session'[s] = Anonymous /\ cookie'[s] # "live"
        /\ cookie[s] = "stale"
           => /\ (last'.op = "messages" /\ last'.sid = s /\ GetMessages(s, TRUE))
                 => last' = Redirect("messages", s, "/login.html") /\ StoreUnchanged
              /\ \A b \in SendBodies :
                   ( ( (last'.op = "send" /\ last'.sid = s)
                         \/ (last' = last /\ pending' # pending) )
                     /\ SendBegin(s, b[1], b[2]) )
                   => last' = Redirect("send", s, "/login.html") /\ StoreUnchanged
              /\ ( ( (last'.op = "admin" /\ last'.sid = s)
                        \/ (last' = last /\ pending' # pending) )
                    /\ AdminBegin(s, TRUE) )
                 => last' = Redirect("admin", s, "/login.html") /\ StoreUnchanged
              /\ cookie'[s] # "stale"
                 => last' = Redirect("login", s, "/") ]_vars

\* a client that logged out has just been refused the message list while
\* messages are stored
C9_Witness ==
  /\ last.op = "messages" /\ last.status = 302
  /\ cookie[last.sid] = "stale"
  /\ Len(messages) > 0

\* C10: on an anonymous session GET /, POST /send, GET /messages and
\* GET /admin are answered with the redirect to /login.html, carry no page
\* and no rows, and leave the store as it was; GET /.well-known/health is
\* answered {status: ok} whatever the session.
C10_ContentNeedsSession ==
  [][ \A s \in Sessions :
        /\ session[s] = Anonymous
           => /\ (last'.op = "root" /\ last'.sid = s /\ GetRoot(s))
                 => last' = Redirect("root", s, "/login.html") /\ StoreUnchanged
              /\ (last'.op = "messages" /\ last'.sid = s /\ GetMessages(s, TRUE))
                 => last' = Redirect("messages", s, "/login.html") /\ StoreUnchanged
              /\ \A b \in SendBodies :
                   ( ( (last'.op = "send" /\ last'.sid = s)
                         \/ (last' = last /\ pending' # pending) )
                     /\ SendBegin(s, b[1], b[2]) )
                   => last' = Redirect("send", s, "/login.html") /\ StoreUnchanged
              /\ ( ( (last'.op = "admin" /\ last'.sid = s)
                        \/ (last' = last /\ pending' # pending) )
                    /\ AdminBegin(s, TRUE) )
                 => last' = Redirect("admin", s, "/login.html") /\ StoreUnchanged
        /\ (last'.op = "health" /\ last'.sid = s /\ Health(s))
           => last' = Response("health", s, 200, "{status:ok}") /\ StoreUnchanged ]_vars

\* a client that never logged in has just been refused the chat page while
\* users and messages are stored
C10_Witness ==
  /\ last.op = "root" /\ last.status = 302 /\ last.location = "/login.html"
  /\ cookie[last.sid] = "none"
  /\ Len(users) > 0 /\ Len(messages) > 0

-----------------------------------------------------------------------------
(* Properties of the sessions *)

\* C11 as stated: a session becomes authenticated only by a successful
\* POST /login on it, keeps its role (the admin flag) for as long as it is
\* authenticated, and becomes anonymous only by POST /logout on it.
C11_SessionStateMachine ==
  [][ \A s \in Sessions :
        /\ (session[s] = Anonymous /\ session'[s] # Anonymous)
           => last' = Redirect("login", s, "/")
        /\ (session[s] # Anonymous /\ session'[s] # Anonymous)
           => session'[s].is_admin = session[s].is_admin
        /\ (session[s] # Anonymous /\ session'[s] = Anonymous)
           => last' = Redirect("logout", s, "/login.html") ]_vars

\* C11 amended: the user of a session changes only by a successful
\* POST /login on that session, which leaves it authenticated (also when it
\* already was, as the same or as another user), or by POST /logout on that
\* session, which leaves it anonymous; send, messages, admin, health, GET /
\* and a failed login leave every session as it was.
C11_SessionChangesOnlyByLoginLogout ==
  [][ \A s \in Sessions :
        session'[s] # session[s]
        => \/ /\ last' = Redirect("login", s, "/")
              /\ session'[s] # Anonymous
           \/ /\ last' = Redirect("logout", s, "/login.html")
              /\ session'[s] = Anonymous ]_vars

\* a client has gone round the cycle: it logged in and has just logged out,
\* while the other client is still logged in
C11_Witness ==
  /\ last.op = "logout"
  /\ cookie[last.sid] = "stale" /\ session[last.sid] = Anonymous
  /\ \E s \in Sessions : session[s] # Anonymous

-----------------------------------------------------------------------------
(* Properties of the tables *)

IsPrefix(a, b) == Len(a) <= Len(b) /\ SubSeq(b, 1, Len(a)) = a

\* C12: every step keeps the rows of messages and of users as they were
\* (same id, sender, text and timestamp) and adds at most one message; the
\* messages table changes only in the step that answers a POST /send with
\* 200, and the users table changes in no step of a request (login, logout,
\* GET /, /messages, /admin, health, send).
C12_MessagesAppendOnly ==
  [][ /\ IsPrefix(messages, messages')
      /\ IsPrefix(users, users')
      /\ Len(messages') <= Len(messages) + 1
      /\ messages' # messages
         => \E r \in BagToSet(pending) :
              /\ r.op = "send"
              /\ last' = Response("send", r.sid, 200, "OK")
              /\ pending' = pending (-) SetToBag({r})
      /\ users' # users => last' = last /\ pending' = pending ]_vars

\* a send has just been answered 200 and the table holds two rows: the row
\* it added and a row that was there before it
C12_Witness ==
  /\ last.op = "send" /\ last.status = 200
  /\ Len(messages) = 2
  /\ messages[1].text # messages[2].text

\* C13: the sender_id of every message row is the id of exactly one row of
\* the users table.
C13_EveryMessageHasOneSender ==
  \A i \in 1..Len(messages) :
    Cardinality({j \in 1..Len(users) : users[j].id = messages[i].sender_id}) = 1

\* two users are stored and each of them has sent a message
C13_Witness ==
  /\ Len(users) = 2 /\ Len(messages) = 2
  /\ messages[1].sender_id # messages[2].sender_id

-----------------------------------------------------------------------------
(* Properties of concurrent sends *)

\* the sends that are waiting on the store
WaitingSends(bag) == {r \in BagToSet(bag) : r.op = "send"}

\* C14: POST /send requests that run at the same time do not disturb each
\* other.  A send that starts while another waits on the store adds its own
\* INSERT (its session's user, its text) and leaves the waiting ones as they
\* are; an INSERT that runs adds exactly one row with its own request's
\* sender and text and an id no earlier row has, leaves the earlier rows and
\* the other waiting sends as they are; and no other step touches a waiting
\* send.  Hence once two concurrent sends have completed there are exactly
\* two new rows, one for each.
C14_ConcurrentSendsIndependent ==
  [][ /\ \A s \in Sessions, b \in SendBodies :
           ( last' = last /\ pending' # pending
               /\ WaitingSends(pending) # {}
               /\ SendBegin(s, b[1], b[2]) )
           => /\ pending' = pending (+) SetToBag({SendRequest(s, session[s].id, b[1])})
              /\ messages' = messages
      /\ \A s \in Sessions, e \in {0, 1} :
           (last'.op = "send" /\ last'.sid = s /\ SendCommit(s, e, TRUE))
           => \E r \in WaitingSends(pending) :
                /\ r.sid = s
                /\ pending' = pending (-) SetToBag({r})
                /\ Len(messages') = Len(messages) + 1
                /\ SubSeq(messages', 1, Len(messages)) = messages
                /\ messages'[Len(messages')].sender_id = r.user
                /\ messages'[Len(messages')].text = r.text.v
                /\ \A i \in 1..Len(messages) :
                     messages[i].id # messages'[Len(messages')].id
      /\ \A r \in WaitingSends(pending) \cup WaitingSends(pending') :
           \/ CopiesIn(r, pending') = CopiesIn(r, pending)
           \/ /\ CopiesIn(r, pending') = CopiesIn(r, pending) - 1
              /\ last'.op = "send" /\ last'.sid = r.sid
              /\ last'.status \in {200, 500}
           \/ /\ CopiesIn(r, pending') = CopiesIn(r, pending) + 1
              /\ last' = last
              /\ session[r.sid].id = r.user ]_vars

\* of two sends that were waiting at the same time, from different
\* sessions and with different texts, one has just been answered 200 and
\* its row is stored, while the other still waits
C14_Witness ==
  /\ last.op = "send" /\ last.status = 200
  /\ Len(messages) = 1
  /\ \E r \in WaitingSends(pending) :
       /\ r.sid # last.sid
       /\ r.user # messages[1].sender_id
       /\ r.text.v # messages[1].text

-----------------------------------------------------------------------------
(* Properties of storage failures *)

\* C15: a request whose statement fails in the store is answered 500, the
\* failure is written to the server's error log, the statement is not run
\* again, and the request leaves the sessions and the tables as they were:
\* a failed login establishes no session, a failed send adds no row.
C15_StorageFailureSurfaced ==
  [][ \A s \in Sessions :
        /\ \A b \in LoginBodies :
             (last'.op = "login" /\ Login(s, b[1], b[2], FALSE))
             => /\ last'.status = 500 /\ errlog' # ""
                /\ session' = session
                /\ users' = users /\ messages' = messages /\ pending' = pending
        /\ \A e \in {0, 1} :
             (last'.op = "send" /\ SendCommit(s, e, FALSE))
             => /\ last'.status = 500 /\ errlog' # ""
                /\ session' = session
                /\ users' = users /\ messages' = messages
                /\ \E r \in BagToSet(pending) :
                     r.op = "send" /\ r.sid = s
                       /\ pending' = pending (-) SetToBag({r})
        /\ (last'.op = "messages" /\ RequireLogin(s) /\ GetMessages(s, FALSE))
           => /\ last'.status = 500 /\ errlog' # ""
              /\ last'.messages = <<>>
              /\ session' = session
              /\ users' = users /\ messages' = messages /\ pending' = pending
        /\ ( last'.op = "admin" /\ RequireLogin(s) /\ session[s].is_admin
               /\ (AdminBegin(s, FALSE) \/ AdminFinish(s, FALSE)) )
           => /\ last'.status = 500 /\ errlog' # ""
              /\ last'.users = <<>> /\ last'.messages = <<>>
              /\ session' = session
              /\ users' = users /\ messages' = messages
              /\ BagCardinality(pending') <= BagCardinality(pending) ]_vars

-----------------------------------------------------------------------------
(* Properties of provisioning *)

NameTaken(tbl, username) == \E i \in 1..Len(tbl) : tbl[i].username = username

\* C16: no two rows of users have the same username; an adduser for a
\* username that a row already has adds no row and leaves every row (its
\* password hash and admin flag included) as it was; an adduser for a
\* username no row has adds the row, also when a row has the same name in
\* another letter case; and a login with one of two such names gets the
\* session of that name's own row.
C16_UsernamesUnique ==
  [][ /\ \A i, j \in 1..Len(users') :
           i # j => users'[i].username # users'[j].username
      /\ \A a \in ProvisionArgs :
           ( Truthy(a[1]) /\ Truthy(a[2]) /\ NameTaken(users, a[1].v)
               /\ AddUserCLI(a[1], a[2], a[3], TRUE) )
           => users' = users
      /\ \A a \in ProvisionArgs :
           ( Truthy(a[1]) /\ Truthy(a[2]) /\ ~NameTaken(users, a[1].v)
               /\ dbFile = "ready"
               /\ AddUserCLI(a[1], a[2], a[3], TRUE) )
           => /\ Len(users') = Len(users) + 1
              /\ SubSeq(users', 1, Len(users)) = users
              /\ users'[Len(users')].username = a[1].v
              /\ users'[Len(users')].password_hash = BcryptHash(a[2].v)
              /\ users'[Len(users')].is_admin = (IF a[3] THEN 1 ELSE 0)
              /\ \A i \in 1..Len(users) : users[i].id # users'[Len(users')].id
      /\ \A s \in Sessions, b \in ProvisionLogins :
           (last'.op = "login" /\ last'.status = 302 /\ Login(s, b[1], b[2], TRUE))
           => \E i \in 1..Len(users) :
                /\ users[i].username = b[1].v
                /\ session'[s].id = users[i].id
                /\ session'[s].username = b[1].v ]_vars

\* alice and Alice are both stored, as different users, and a client is
\* logged in as each of them
C16_Witness ==
  /\ \E i, j \in 1..Len(users) :
       /\ users[i].username = alice /\ users[j].username = AliceUpper
       /\ users[i].id # users[j].id
       /\ \E s, t \in Sessions :
            session[s].id = users[i].id /\ session[t].id = users[j].id
  /\ \E s \in Sessions : session[s].username = AliceUpper

-----------------------------------------------------------------------------
(* Properties of the message list *)

\* C17: with the store answering, GET /messages on an authenticated
\* session is answered 200 with as many entries as there are message rows;
\* every row has exactly one entry with its id, and that entry carries the
\* row's text and timestamp and the username and admin flag of the users
\* row the row's sender_id names.
C17_MessageListComplete ==
  [][ \A s \in Sessions :
        (last'.op = "messages" /\ RequireLogin(s) /\ GetMessages(s, TRUE))
        => /\ last'.status = 200
           /\ Len(last'.messages) = Len(messages)
           /\ \A i \in 1..Len(messages) :
                LET js == {j \in 1..Len(last'.messages) :
                             last'.messages[j].id = messages[i].id}
                IN /\ Cardinality(js) = 1
                   /\ \A j \in js :
                        /\ last'.messages[j].text = messages[i].text
                        /\ last'.messages[j].ts = messages[i].ts
                        /\ \E k \in 1..Len(users) :
                             /\ users[k].id = messages[i].sender_id
                             /\ last'.messages[j].username = users[k].username
                             /\ last'.messages[j].is_admin = users[k].is_admin ]_vars

\* a list has just been returned with a message of the admin and a message
\* of a user who is not admin, the admin's sent first
C17_Witness ==
  /\ last.op = "messages" /\ last.status = 200
  /\ Len(last.messages) = 2
  /\ last.messages[1].is_admin = 1 /\ last.messages[2].is_admin = 0
  /\ Len(users) = 2 /\ users[1].is_admin = 0

-----------------------------------------------------------------------------
(* Frame properties of POST /login and POST /logout *)

\* C18: a POST /login that is answered 401 or 500 on a session that is
\* authenticated leaves that session as it was, same user and same admin
\* flag, with its cookie still naming it; and a send that starts on a
\* session is bound to the user the session holds at that moment, so sends
\* after the failed login are still that user's.
C18_FailedLoginKeepsSession ==
  [][ \A s \in Sessions :
        /\ ( last'.op = "login" /\ last'.sid = s
               /\ last'.status \in {401, 500}
               /\ session[s] # Anonymous )
           => /\ session'[s] = session[s]
              /\ cookie'[s] = cookie[s]
        /\ \A b \in SendBodies :
             (last' = last /\ pending' # pending /\ SendBegin(s, b[1], b[2]))
             => \E r \in WaitingSends(pending') :
                  /\ r.sid = s /\ r.user = session[s].id
                  /\ CopiesIn(r, pending') = CopiesIn(r, pending) + 1 ]_vars

\* a login has just been refused on a session that is logged in as the
\* admin
C18_Witness ==
  /\ last.op = "login" /\ last.status \in {401, 500}
  /\ session[last.sid] # Anonymous
  /\ session[last.sid].is_admin
  /\ cookie[last.sid] = "live"

\* C19: a POST /login, answered with success or not, and a POST /logout on
\* one session leave every other session as it was (user, admin flag,
\* cookie), also a session of the same user.
C19_SessionsIndependent ==
  [][ \A s \in Sessions :
        ( \/ (last'.op = "logout" /\ last'.sid = s /\ Logout(s))
          \/ ( last'.op = "login" /\ last'.sid = s
                 /\ \E b \in LoginBodies : Login(s, b[1], b[2], TRUE) ) )
        => \A t \in Sessions \ {s} :
             session'[t] = session[t] /\ cookie'[t] = cookie[t] ]_vars

\* one client has just logged out while the other is logged in; both
\* clients had logged in (the first now holds a stale cookie) and the
\* other's user is the only one provisioned, so both were its sessions
C19_Witness ==
  /\ last.op = "logout"
  /\ cookie[last.sid] = "stale"
  /\ Len(users) = 1
  /\ \E t \in Sessions \ {last.sid} :
       session[t] # Anonymous /\ session[t].id = users[1].id

====
